---------------------------- MODULE Spec2Model ----------------------------
(***************************************************************************)
(* Job Application Assistant (src/new.py): the JobTracker class            *)
(* (extract_job_details, add_to_sheet, remove_from_sheet, get_ai_response, *)
(* is_job_application) and the chat-input turn loop, with the Google Sheet *)
(* as a table of rows under a header row and the language model as an     *)
(* external call with every outcome the code distinguishes.                *)
(*                                                                         *)
(* Text is a sequence of symbols.  A symbol is a letter ("a", "A", ...), a *)
(* whitespace character (" ", "\n") or a whole word that the code's        *)
(* patterns look for ("remove", "row", "job", ...), so that a match can    *)
(* only fall on symbol borders and matching on symbols is matching on      *)
(* characters.                                                             *)
(***************************************************************************)
EXTENDS Integers, Sequences, FiniteSets, TLC

VARIABLES
    sheet_header,       \* row 1 of the worksheet: a sequence of column names
    sheet_rows,         \* the data rows (row 2 onwards), each a sequence of cells
    gemini_configured,  \* JobTracker.gemini_configured, per session
    sheets_configured,  \* JobTracker.sheets_configured (and self.sheet), per session
    messages,           \* st.session_state.messages, per session
    pc,                 \* per session: where the session's current call stands
    caller,             \* per session: "turn" when the call was made by the turn loop
    details,            \* per session: add_to_sheet's argument
    target,             \* per session: remove_from_sheet's argument company_name
    rows_to_delete,     \* per session: remove_from_sheet's indices still to delete
    result,             \* per session: what the last completed call returned
    calls,              \* per session: external calls made by the current/last operation
    rows0,              \* per session: the data rows as remove_from_sheet read them
    deleted,            \* per session: the indices remove_from_sheet has deleted, in order
    prompt,             \* classifier check: the text typed
    message_type,       \* classifier check: is_job_application(prompt)
    company_name        \* classifier check: the turn loop's company_name (<<>> while not bound)

vars == << sheet_header, sheet_rows, gemini_configured, sheets_configured,
           messages, pc, caller, details, target, rows_to_delete, result,
           calls, rows0, deleted, prompt, message_type, company_name >>

sheetVars == << sheet_header, sheet_rows, gemini_configured, sheets_configured,
                messages, pc, caller, details, target, rows_to_delete, result,
                calls, rows0, deleted >>

classifyVars == << prompt, message_type, company_name >>

-----------------------------------------------------------------------------
(* Bounds *)

MaxTextLen == 6

\* add_to_sheet is not called on a sheet of MaxRows data rows
MaxRows == 3

\* the conversation is reset before it exceeds MaxMsgs turns
MaxMsgs == 4

-----------------------------------------------------------------------------
(* Strings *)

None == "None"

Range(s) == { s[i] : i \in DOMAIN s }

\* \s of the regular expressions, and what str.strip() removes
IsSpace(c) == c \in {" ", "\n"}

IsLetter(c) == c \in {"a", "A", "b", "B", "x", "X", "l", "L"}

\* str.lower() on one symbol
LowerChar(c) ==
    CASE c = "A" -> "a"
      [] c = "B" -> "b"
      [] c = "X" -> "x"
      [] c = "L" -> "l"
      [] c = "Remove" -> "remove"
      [] c = "Row" -> "row"
      [] c = "Job" -> "job"
      [] OTHER -> c

\* str.upper() on one letter
UpperChar(c) ==
    CASE c = "a" -> "A"
      [] c = "b" -> "B"
      [] c = "x" -> "X"
      [] c = "l" -> "L"
      [] OTHER -> c

\* str.lower()
lower(s) == [i \in DOMAIN s |-> LowerChar(s[i])]

\* str.title() on letters and whitespace: a letter that starts a word is
\* upper-cased, every other letter lower-cased
title(s) ==
    [i \in DOMAIN s |->
        IF i = 1 \/ ~IsLetter(s[i - 1]) THEN UpperChar(s[i]) ELSE LowerChar(s[i])]

RECURSIVE LStrip(_)
LStrip(s) == IF s # <<>> /\ IsSpace(Head(s)) THEN LStrip(Tail(s)) ELSE s

RECURSIVE RStrip(_)
RStrip(s) ==
    IF s # <<>> /\ IsSpace(s[Len(s)]) THEN RStrip(SubSeq(s, 1, Len(s) - 1)) ELSE s

\* str.strip()
strip(s) == RStrip(LStrip(s))

-----------------------------------------------------------------------------
(* The classifier: JobTracker.is_job_application, and the turn loop's       *)
(* second search for the company name                                       *)

job_keywords ==
    { "applied", "application", "applying", "job", "position",
      "role", "interview", "company", "submitted", "sent resume" }

AllSpace(t, i, j) == \A k \in i..j : IsSpace(t[k])

\* "." matches any character but a line break (the pattern has no re.DOTALL)
AllDot(t, i, j) == \A k \in i..j : t[k] # "\n"

\* \s+row from position p: a non-empty run of whitespace, then "row"
SpaceThenRow(t, p) ==
    \E q \in (p + 1)..Len(t) : AllSpace(t, p, q - 1) /\ LowerChar(t[q]) = "row"

\* remove\s+(.+?)\s+row under re.IGNORECASE.  A match from position i has
\* its first \s+ end before position a and its group 1 = t[a..b].
GroupStarts(t, i) == { a \in (i + 2)..Len(t) : AllSpace(t, i + 1, a - 1) }

GroupEnds(t, a) == { b \in a..Len(t) : AllDot(t, a, b) /\ SpaceThenRow(t, b + 1) }

MatchStarts(t) ==
    { i \in 1..Len(t) :
        /\ LowerChar(t[i]) = "remove"
        /\ \E a \in GroupStarts(t, i) : GroupEnds(t, a) # {} }

\* the same pattern without re.IGNORECASE
MatchStartsExactCase(t) ==
    { i \in 1..Len(t) :
        /\ t[i] = "remove"
        /\ \E a \in GroupStarts(t, i) :
              \E b \in a..Len(t) :
                 /\ AllDot(t, a, b)
                 /\ \E q \in (b + 2)..Len(t) : AllSpace(t, b + 1, q - 1) /\ t[q] = "row" }

Min(S) == CHOOSE x \in S : \A y \in S : x <= y
Max(S) == CHOOSE x \in S : \A y \in S : x >= y

\* the match re.search returns, given the positions a match can start at: the
\* leftmost start, from it the longest first \s+ that leads to a match
\* (greedy), and with it the shortest group (lazy).  matched is FALSE for
\* None; group1 is group(1).
FirstMatch(t, starts) ==
    IF starts = {} THEN [matched |-> FALSE, group1 |-> <<>>]
    ELSE LET i == Min(starts)
             a == Max({ x \in GroupStarts(t, i) : GroupEnds(t, x) # {} })
             b == Min(GroupEnds(t, a))
         IN  [matched |-> TRUE, group1 |-> SubSeq(t, a, b)]

re_search_exact_case(t) == FirstMatch(t, MatchStartsExactCase(t))

\* re.search(remove_pattern, text, re.IGNORECASE)
re_search(t) == FirstMatch(t, MatchStarts(t))

KeywordFirst(text) ==
    IF \E k \in job_keywords : k \in Range(lower(text)) THEN "application"
    ELSE IF re_search(text).matched THEN "remove"
    ELSE None

is_job_application(text) ==
    IF re_search(text).matched THEN "remove"
    ELSE IF \E k \in job_keywords : k \in Range(lower(text)) THEN "application"
    ELSE None

\* lines 420-423: match.group(1).strip(), for a text classified 'remove'
RemoveCompany(text) == strip(re_search(text).group1)

-----------------------------------------------------------------------------
(* The classifier on every text up to MaxTextLen symbols *)

TextAlphabet == { "remove", "Row", " ", "\n", "a", "Job" }

Texts == UNION { [1..n -> TextAlphabet] : n \in 0..MaxTextLen }

Unset == "unset"

InitClassify ==
    /\ prompt \in Texts
    /\ message_type = Unset
    /\ company_name = <<>>

\* lines 392 and 418-423 on the text typed
Classify ==
    /\ message_type = Unset
    /\ LET type == is_job_application(prompt) IN
          /\ message_type' = type
          /\ company_name' = IF type = "remove" THEN RemoveCompany(prompt) ELSE <<>>
    /\ UNCHANGED prompt

-----------------------------------------------------------------------------
(* The worksheet (gspread): row 1 is the header, the data rows follow *)

AllSessions == {1, 2}

expected_headers == << "Company Name", "Role", "Date", "Platform", "Accept" >>

\* the header rows a worksheet is set up with: the documented one, the same
\* columns in another order, with one more column, and without "Accept"
Headers ==
    { << "Company Name", "Role", "Date", "Platform", "Accept" >>,
      << "Role", "Company Name", "Date", "Platform", "Accept" >>,
      << "Company Name", "Role", "Date", "Platform", "Accept", "Notes" >>,
      << "Company Name", "Role", "Date", "Platform" >> }

\* a cell of a row; a row shorter than the header reads as ''
Cell(row, i) == IF i \in DOMAIN row THEN row[i] ELSE <<>>

\* worksheet.get_all_records(): each data row as a dict keyed by the header
get_all_records(header, rows) ==
    [ r \in DOMAIN rows |->
        [ h \in Range(header) |->
            Cell(rows[r], Max({ i \in DOMAIN header : header[i] = h })) ] ]

\* dict.get(key, default)
Get(record, key, default) == IF key \in DOMAIN record THEN record[key] ELSE default

\* an append that leaves a sheet that holds the row alone
AppendIfAbsent(rows, values) ==
    IF \E i \in DOMAIN rows : rows[i] = values THEN rows ELSE Append(rows, values)

\* worksheet.append_row(values): the values go into a new last row, from
\* the first column on
append_row(rows, values) == Append(rows, values)

\* worksheet.delete_rows(index): index counts the header as row 1
delete_rows(rows, index) ==
    IF index - 1 \in DOMAIN rows
    THEN SubSeq(rows, 1, index - 2) \o SubSeq(rows, index, Len(rows))
    ELSE rows

-----------------------------------------------------------------------------
(* Messages the methods return, and the turns of the conversation *)

Msg(text, n, company) == [text |-> text, count |-> n, company |-> company]

NoMsg == Msg("", 0, <<>>)

Returned(op, success, message) == [op |-> op, success |-> success, message |-> message]

UserTurn(text) ==
    [role |-> "user", content |-> [lead |-> "", message |-> NoMsg, text |-> text]]

AssistantTurn(lead, message) ==
    [role |-> "assistant", content |-> [lead |-> lead, message |-> message, text |-> <<>>]]

WithJobDetails(turn, d) ==
    [role |-> turn.role, content |-> turn.content, job_details |-> d]

-----------------------------------------------------------------------------
(* JobTracker.extract_job_details and JobTracker.get_ai_response *)

Today == << "2025-05-24" >>

EmptyDetails ==
    [Company_Name |-> <<>>, Role |-> <<>>, Date |-> <<>>, Platform |-> <<>>,
     Accept |-> << "Pending" >>]

\* a JSON value: a string, or something else (null, a number, a list)
Str(v) == [is_str |-> TRUE, v |-> v]
NotStr == [is_str |-> FALSE, v |-> <<>>]

\* what model.generate_content can do: raise, answer without a fenced json
\* block, answer with a block that json.loads rejects, or answer with a
\* block holding a JSON object
LLMReplies ==
    { [kind |-> "raises", obj |-> <<>>],
      [kind |-> "no_block", obj |-> <<>>],
      [kind |-> "bad_json", obj |-> <<>>],
      [kind |-> "json",
       obj |-> [k \in {"Company Name", "Role", "Date", "Platform", "Status"} |->
                  CASE k = "Company Name" -> Str(<< " ", "a" >>)
                    [] k = "Role" -> Str(<< "x" >>)
                    [] k = "Date" -> Str(<< "2025-05-23" >>)
                    [] k = "Platform" -> Str(<< "l" >>)
                    [] k = "Status" -> Str(<< "Pending" >>)]],
      [kind |-> "json",
       obj |-> [k \in {"Company Name", "Role"} |->
                  IF k = "Company Name" THEN Str(<< "b" >>) ELSE Str(<< "x", " " >>)]],
      [kind |-> "json",
       obj |-> [k \in {"Company Name", "Role"} |->
                  IF k = "Company Name" THEN Str(<< " " >>) ELSE Str(<< "x" >>)]],
      [kind |-> "json",
       obj |-> [k \in {"Company Name", "Role"} |->
                  IF k = "Company Name" THEN Str(<< "a" >>) ELSE NotStr]] }

Extracted(d, is_valid, message, llm_calls, raised) ==
    [details |-> d, is_valid |-> is_valid, message |-> message,
     llm_calls |-> llm_calls, raised |-> raised]

\* lines 160-218.  catches_all: the outer handler is "except Exception".
\* raised: an exception leaves the method.
ExtractDetails(configured, llm, catches_all) ==
    IF ~configured
    THEN Extracted(EmptyDetails, FALSE, Msg("Gemini AI not configured", 0, <<>>), 0, FALSE)
    ELSE CASE llm.kind = "raises" ->
                Extracted(EmptyDetails, FALSE,
                          Msg("Error extracting details with Gemini AI", 0, <<>>), 1, FALSE)
           [] llm.kind = "no_block" ->
                Extracted(EmptyDetails, FALSE,
                          Msg("No valid job application details found", 0, <<>>), 1, FALSE)
           [] llm.kind = "bad_json" ->
                Extracted(EmptyDetails, FALSE,
                          Msg("Failed to parse Gemini AI response", 0, <<>>), 1, FALSE)
           [] llm.kind = "json" ->
                LET company == Get(llm.obj, "Company Name", Str(<<>>))
                    role == Get(llm.obj, "Role", Str(<<>>))
                    date == Get(llm.obj, "Date", Str(Today))
                    platform == Get(llm.obj, "Platform", Str(<<>>))
                    status == Get(llm.obj, "Status", Str(<< "Pending" >>))
                IN
                IF \E x \in {company, role, date, platform, status} : ~x.is_str
                THEN \* .strip() of a value that is no string: AttributeError
                     IF catches_all
                     THEN Extracted(EmptyDetails, FALSE,
                                    Msg("Error extracting details with Gemini AI", 0, <<>>),
                                    1, FALSE)
                     ELSE Extracted(EmptyDetails, FALSE, NoMsg, 1, TRUE)
                ELSE LET d == [Company_Name |-> title(strip(company.v)),
                               Role |-> title(strip(role.v)),
                               Date |-> strip(date.v),
                               Platform |-> title(strip(platform.v)),
                               Accept |-> strip(status.v)]
                     IN  Extracted(d, d.Company_Name # <<>> /\ d.Role # <<>>,
                                   Msg("Successfully extracted details", 0, <<>>),
                                   1, FALSE)

\* the method with only json.JSONDecodeError caught
extract_job_details_uncaught(configured, llm) == ExtractDetails(configured, llm, FALSE)

extract_job_details(configured, llm) == ExtractDetails(configured, llm, TRUE)

\* lines 280-311
get_ai_response(configured, llm) ==
    IF ~configured
    THEN [content |-> Msg("I'm having trouble connecting to my AI service", 0, <<>>),
          llm_calls |-> 0]
    ELSE IF llm.kind = "raises"
    THEN [content |-> Msg("I'm having some technical difficulties right now", 0, <<>>),
          llm_calls |-> 1]
    ELSE [content |-> Msg("response.text", 0, <<>>), llm_calls |-> 1]

-----------------------------------------------------------------------------
(* JobTracker.add_to_sheet and JobTracker.remove_from_sheet, one step per   *)
(* call of the worksheet, and the turn loop around them                     *)

AddPcs == { "add_row_values", "add_get_all_records", "add_append_row" }
RemovePcs == { "rm_get_all_records", "rm_delete_rows" }
ModelPcs == { "extract_job_details", "get_ai_response" }

\* line 229, with the positional comparison instead of the containment
HeaderEqual(headers) == headers = expected_headers

\* line 229: all(h in headers for h in expected_headers)
HeaderOK(headers) == \A h \in Range(expected_headers) : h \in Range(headers)

\* lines 235-237
IsDuplicate(record, d) ==
    /\ lower(Get(record, "Company Name", <<>>)) = lower(d.Company_Name)
    /\ lower(Get(record, "Role", <<>>)) = lower(d.Role)
    /\ Get(record, "Date", << None >>) = d.Date

\* lines 241-247
row_data(d) == << d.Company_Name, d.Role, d.Date, d.Platform, d.Accept >>

\* lines 262-267 with the companies compared as they are written
RECURSIVE MatchingRowsExactCase(_, _, _)
MatchingRowsExactCase(records, company, i) ==
    IF i > Len(records) THEN <<>>
    ELSE (IF Get(records[i], "Company Name", <<>>) = company
          THEN << i + 1 >> ELSE <<>>)
         \o MatchingRowsExactCase(records, company, i + 1)

\* lines 262-267: the sheet indices (enumerate from 2) of the records whose
\* company is company, in the order the loop meets them
RECURSIVE MatchingRows(_, _, _)
MatchingRows(records, company, i) ==
    IF i > Len(records) THEN <<>>
    ELSE (IF lower(Get(records[i], "Company Name", <<>>)) = lower(company)
          THEN << i + 1 >> ELSE <<>>)
         \o MatchingRows(records, company, i + 1)

\* the list as it is, in the order it was built
sorted_plain(l) == l

\* line 271: sorted(rows_to_delete, reverse=True)
RECURSIVE sorted_reverse(_)
sorted_reverse(l) ==
    IF l = <<>> THEN <<>>
    ELSE LET m == Max(Range(l)) IN
         << m >> \o sorted_reverse(SelectSeq(l, LAMBDA x : x # m))

\* lines 402-413 with job_details attached to both replies
AddReplyAlwaysDetails(success, message, d) ==
    IF success
    THEN WithJobDetails(AssistantTurn("Great! I've recorded your job application.", message), d)
    ELSE WithJobDetails(
             AssistantTurn("I see you applied for a job! However, there was an issue saving it:",
                           message), d)

\* lines 402-413: the turn loop's reply after add_to_sheet returned
AddReply(success, message, d) ==
    IF success
    THEN WithJobDetails(AssistantTurn("Great! I've recorded your job application.", message), d)
    ELSE AssistantTurn("I see you applied for a job! However, there was an issue saving it:",
                       message)

\* lines 415-416
ClarifyReply(message) ==
    AssistantTurn("I couldn't extract enough details from your input:", message)

\* lines 425-426 and 433-434: the message is relayed as it is
RelayReply(message) == AssistantTurn("", message)

\* the call of session s returns r to who called it: the turn loop appends
\* its reply to the conversation base.  result keeps the return value with
\* the arguments of the call.
Return(s, who, base, r) ==
    /\ pc' = [pc EXCEPT ![s] = "idle"]
    /\ result' = [result EXCEPT ![s] =
                    [op |-> r.op, success |-> r.success, message |-> r.message,
                     details |-> details'[s], company |-> target'[s]]]
    /\ messages' =
          [messages EXCEPT ![s] =
              IF who # "turn" THEN base
              ELSE IF r.op = "add"
                   THEN Append(base, AddReply(r.success, r.message, details'[s]))
                   ELSE Append(base, RelayReply(r.message))]

Continue(s, where, base) ==
    /\ pc' = [pc EXCEPT ![s] = where]
    /\ result' = result
    /\ messages' = [messages EXCEPT ![s] = base]

\* lines 222-223 without the check
BeginAddUnchecked(s, d, who, base) ==
    /\ details' = [details EXCEPT ![s] = d]
    /\ caller' = [caller EXCEPT ![s] = who]
    /\ target' = [target EXCEPT ![s] = <<>>]
    /\ rows_to_delete' = [rows_to_delete EXCEPT ![s] = <<>>]
    /\ rows0' = [rows0 EXCEPT ![s] = <<>>]
    /\ deleted' = [deleted EXCEPT ![s] = <<>>]
    /\ UNCHANGED << sheet_header, sheet_rows, gemini_configured, sheets_configured >>
    /\ Continue(s, "add_row_values", base)

\* add_to_sheet(d) is entered: lines 220-223
BeginAdd(s, d, who, base) ==
    /\ details' = [details EXCEPT ![s] = d]
    /\ caller' = [caller EXCEPT ![s] = who]
    /\ target' = [target EXCEPT ![s] = <<>>]
    /\ rows_to_delete' = [rows_to_delete EXCEPT ![s] = <<>>]
    /\ rows0' = [rows0 EXCEPT ![s] = <<>>]
    /\ deleted' = [deleted EXCEPT ![s] = <<>>]
    /\ UNCHANGED << sheet_header, sheet_rows, gemini_configured, sheets_configured >>
    /\ IF ~sheets_configured[s]
       THEN Return(s, who, base,
                   Returned("add", FALSE, Msg("Google Sheets not configured", 0, <<>>)))
       ELSE Continue(s, "add_row_values", base)

\* remove_from_sheet(company) is entered: lines 255-258
BeginRemove(s, company, who, base) ==
    /\ target' = [target EXCEPT ![s] = company]
    /\ caller' = [caller EXCEPT ![s] = who]
    /\ details' = [details EXCEPT ![s] = EmptyDetails]
    /\ rows_to_delete' = [rows_to_delete EXCEPT ![s] = <<>>]
    /\ rows0' = [rows0 EXCEPT ![s] = <<>>]
    /\ deleted' = [deleted EXCEPT ![s] = <<>>]
    /\ UNCHANGED << sheet_header, sheet_rows, gemini_configured, sheets_configured >>
    /\ IF ~sheets_configured[s]
       THEN Return(s, who, base,
                   Returned("remove", FALSE, Msg("Google Sheets not configured", 0, <<>>)))
       ELSE Continue(s, "rm_get_all_records", base)

NoCalls == [llm |-> 0, sheet |-> 0]

SheetCall(s) == calls' = [calls EXCEPT ![s].sheet = @ + 1]

\* lines 227-230: self.sheet.row_values(1) and the check of the header
AddRowValues(s, raises) ==
    /\ pc[s] = "add_row_values"
    /\ UNCHANGED classifyVars
    /\ SheetCall(s)
    /\ UNCHANGED << sheet_header, sheet_rows, gemini_configured, sheets_configured,
                    caller, details, target, rows_to_delete, rows0, deleted >>
    /\ IF raises
       THEN Return(s, caller[s], messages[s],
                   Returned("add", FALSE, Msg("Error saving to sheet", 0, <<>>)))
       ELSE IF ~HeaderOK(sheet_header)
       THEN Return(s, caller[s], messages[s],
                   Returned("add", FALSE, Msg("Invalid sheet structure", 0, <<>>)))
       ELSE Continue(s, "add_get_all_records", messages[s])

\* lines 233-247: self.sheet.get_all_records() and the search for a duplicate
AddGetAllRecords(s, raises) ==
    /\ pc[s] = "add_get_all_records"
    /\ UNCHANGED classifyVars
    /\ SheetCall(s)
    /\ UNCHANGED << sheet_header, sheet_rows, gemini_configured, sheets_configured,
                    caller, details, target, rows_to_delete, rows0, deleted >>
    /\ IF raises
       THEN Return(s, caller[s], messages[s],
                   Returned("add", FALSE, Msg("Error saving to sheet", 0, <<>>)))
       ELSE LET records == get_all_records(sheet_header, sheet_rows) IN
            IF \E r \in DOMAIN records : IsDuplicate(records[r], details[s])
            THEN Return(s, caller[s], messages[s],
                        Returned("add", FALSE,
                                 Msg("This job application already exists", 0, <<>>)))
            ELSE Continue(s, "add_append_row", messages[s])

\* lines 249-250: self.sheet.append_row(row_data)
AddAppendRow(s, raises) ==
    /\ pc[s] = "add_append_row"
    /\ UNCHANGED classifyVars
    /\ SheetCall(s)
    /\ UNCHANGED << sheet_header, gemini_configured, sheets_configured,
                    caller, details, target, rows_to_delete, rows0, deleted >>
    /\ IF raises
       THEN /\ sheet_rows' = sheet_rows
            /\ Return(s, caller[s], messages[s],
                      Returned("add", FALSE, Msg("Error saving to sheet", 0, <<>>)))
       ELSE /\ sheet_rows' = append_row(sheet_rows, row_data(details[s]))
            /\ Return(s, caller[s], messages[s],
                      Returned("add", TRUE,
                               Msg("Successfully added to your job tracker!", 0, <<>>)))

\* lines 261-275: self.sheet.get_all_records() and the rows to delete
RemoveGetAllRecords(s, raises) ==
    /\ pc[s] = "rm_get_all_records"
    /\ UNCHANGED classifyVars
    /\ SheetCall(s)
    /\ UNCHANGED << sheet_header, sheet_rows, gemini_configured, sheets_configured,
                    caller, details, target, deleted >>
    /\ IF raises
       THEN /\ UNCHANGED << rows_to_delete, rows0 >>
            /\ Return(s, caller[s], messages[s],
                      Returned("remove", FALSE, Msg("Error removing from sheet", 0, <<>>)))
       ELSE LET found == MatchingRows(get_all_records(sheet_header, sheet_rows),
                                      target[s], 1)
            IN  /\ rows_to_delete' = [rows_to_delete EXCEPT ![s] = found]
                /\ rows0' = [rows0 EXCEPT ![s] = sheet_rows]
                /\ IF found = <<>>
                   THEN Return(s, caller[s], messages[s],
                               Returned("remove", FALSE,
                                        Msg("No application found", 0, title(target[s]))))
                   ELSE Continue(s, "rm_delete_rows", messages[s])

\* lines 271-273: one turn of the loop, self.sheet.delete_rows(row_index)
RemoveDeleteRows(s, raises) ==
    /\ pc[s] = "rm_delete_rows"
    /\ UNCHANGED classifyVars
    /\ SheetCall(s)
    /\ UNCHANGED << sheet_header, gemini_configured, sheets_configured,
                    caller, details, target, rows_to_delete, rows0 >>
    /\ IF raises
       THEN /\ UNCHANGED << sheet_rows, deleted >>
            /\ Return(s, caller[s], messages[s],
                      Returned("remove", FALSE, Msg("Error removing from sheet", 0, <<>>)))
       ELSE LET order == sorted_reverse(rows_to_delete[s])
                row_index == order[Len(deleted[s]) + 1]
            IN  /\ sheet_rows' = delete_rows(sheet_rows, row_index)
                /\ deleted' = [deleted EXCEPT ![s] = Append(@, row_index)]
                /\ IF Len(deleted[s]) + 1 = Len(order)
                   THEN Return(s, caller[s], messages[s],
                               Returned("remove", TRUE,
                                        Msg("Successfully removed", Len(rows_to_delete[s]),
                                            title(target[s]))))
                   ELSE Continue(s, "rm_delete_rows", messages[s])

\* the texts typed into st.chat_input
ChatTexts ==
    { << "remove", " ", "a", " ", "row" >>,
      << "Remove", " ", " ", "B", " ", "Row" >>,
      << "Job" >>,
      << "a" >> }

\* line 462
sample_message == << "applied" >>

\* lines 383-394, 418-431: the user's turn is appended, the text classified
\* and the branch entered.  The remove branch searches the text again for
\* the company name and enters remove_from_sheet.
ChatInput(s, text) ==
    /\ pc[s] = "idle"
    /\ Len(messages[s]) + 2 <= MaxMsgs
    /\ UNCHANGED classifyVars
    /\ calls' = [calls EXCEPT ![s] = NoCalls]
    /\ LET base == Append(messages[s], UserTurn(text))
           type == is_job_application(text)
       IN
       IF type = "remove"
       THEN BeginRemove(s, RemoveCompany(text), "turn", base)
       ELSE /\ type = "application" => Len(sheet_rows) < MaxRows
            /\ pc' = [pc EXCEPT ![s] =
                        IF type = "application" THEN "extract_job_details"
                        ELSE "get_ai_response"]
            /\ messages' = [messages EXCEPT ![s] = base]
            /\ caller' = [caller EXCEPT ![s] = "turn"]
            /\ UNCHANGED << sheet_header, sheet_rows, gemini_configured,
                            sheets_configured, details, target, rows_to_delete,
                            result, rows0, deleted >>

\* lines 396-416: extract_job_details with the model's answer llm, then
\* add_to_sheet is entered or the clarification request is the reply
ExtractJobDetails(s, llm) ==
    /\ pc[s] = "extract_job_details"
    /\ UNCHANGED classifyVars
    /\ LET e == extract_job_details(gemini_configured[s], llm) IN
       /\ calls' = [calls EXCEPT ![s].llm = @ + e.llm_calls]
       /\ IF e.raised
          THEN /\ pc' = [pc EXCEPT ![s] = "raised"]
               /\ UNCHANGED << sheet_header, sheet_rows, gemini_configured,
                               sheets_configured, messages, caller, details, target,
                               rows_to_delete, result, rows0, deleted >>
          ELSE IF e.is_valid
          THEN BeginAdd(s, e.details, "turn", messages[s])
          ELSE /\ pc' = [pc EXCEPT ![s] = "idle"]
               /\ messages' = [messages EXCEPT ![s] = Append(@, ClarifyReply(e.message))]
               /\ UNCHANGED << sheet_header, sheet_rows, gemini_configured,
                               sheets_configured, caller, details, target,
                               rows_to_delete, result, rows0, deleted >>

\* lines 431-434: get_ai_response with the model's answer llm is the reply
GetAiResponse(s, llm) ==
    /\ pc[s] = "get_ai_response"
    /\ UNCHANGED classifyVars
    /\ LET a == get_ai_response(gemini_configured[s], llm) IN
       /\ calls' = [calls EXCEPT ![s].llm = @ + a.llm_calls]
       /\ pc' = [pc EXCEPT ![s] = "idle"]
       /\ messages' = [messages EXCEPT ![s] = Append(@, RelayReply(a.content))]
       /\ UNCHANGED << sheet_header, sheet_rows, gemini_configured,
                       sheets_configured, caller, details, target,
                       rows_to_delete, result, rows0, deleted >>

\* lines 457-459: the Reset Chat button
ResetChat(s) ==
    /\ pc[s] = "idle"
    /\ messages[s] # <<>>
    /\ UNCHANGED classifyVars
    /\ messages' = [messages EXCEPT ![s] = <<>>]
    /\ UNCHANGED << sheet_header, sheet_rows, gemini_configured, sheets_configured,
                    pc, caller, details, target, rows_to_delete, result, calls,
                    rows0, deleted >>

\* lines 461-464: the Test with Sample Data button
SampleData(s) ==
    /\ pc[s] = "idle"
    /\ Len(messages[s]) < MaxMsgs
    /\ UNCHANGED classifyVars
    /\ messages' = [messages EXCEPT ![s] = Append(@, UserTurn(sample_message))]
    /\ UNCHANGED << sheet_header, sheet_rows, gemini_configured, sheets_configured,
                    pc, caller, details, target, rows_to_delete, result, calls,
                    rows0, deleted >>

\* what add_to_sheet is called with
DetailsSet ==
    [Company_Name : { << "A" >>, << "a" >>, << "B" >> },
     Role : { << "X" >> },
     Date : { << "2025-05-23" >>, Today },
     Platform : { << "L" >> },
     Accept : { << "Pending" >> }]

\* what remove_from_sheet is called with
Companies == { << "a" >>, << "B" >>, << "x" >> }

\* add_to_sheet(d) called on the tracker of session s
CallAdd(s, d) ==
    /\ pc[s] = "idle"
    /\ Len(sheet_rows) < MaxRows
    /\ UNCHANGED classifyVars
    /\ calls' = [calls EXCEPT ![s] = NoCalls]
    /\ BeginAdd(s, d, "direct", messages[s])

\* remove_from_sheet(company) called on the tracker of session s
CallRemove(s, company) ==
    /\ pc[s] = "idle"
    /\ UNCHANGED classifyVars
    /\ calls' = [calls EXCEPT ![s] = NoCalls]
    /\ BeginRemove(s, company, "direct", messages[s])

\* JobTracker.setup_services (lines 116-158) has run in every session: each
\* capability is configured or not, for good
InitSessions ==
    /\ gemini_configured \in [AllSessions -> BOOLEAN]
    /\ sheets_configured \in [AllSessions -> BOOLEAN]
    /\ messages = [s \in AllSessions |-> <<>>]
    /\ pc = [s \in AllSessions |-> "idle"]
    /\ caller = [s \in AllSessions |-> "turn"]
    /\ details = [s \in AllSessions |-> EmptyDetails]
    /\ target = [s \in AllSessions |-> <<>>]
    /\ rows_to_delete = [s \in AllSessions |-> <<>>]
    /\ result = [s \in AllSessions |->
                   [op |-> "none", success |-> FALSE, message |-> NoMsg,
                    details |-> EmptyDetails, company |-> <<>>]]
    /\ calls = [s \in AllSessions |-> NoCalls]
    /\ rows0 = [s \in AllSessions |-> <<>>]
    /\ deleted = [s \in AllSessions |-> <<>>]

ClassifierAtRest ==
    /\ prompt = <<>>
    /\ message_type = Unset
    /\ company_name = <<>>

\* one session and its sheet
Init ==
    /\ sheet_header \in Headers
    /\ sheet_rows = <<>>
    /\ InitSessions
    /\ gemini_configured[2] = FALSE
    /\ sheets_configured[2] = FALSE
    /\ ClassifierAtRest

Next ==
    \/ \E text \in ChatTexts : ChatInput(1, text)
    \/ \E llm \in LLMReplies : ExtractJobDetails(1, llm)
    \/ \E llm \in LLMReplies : GetAiResponse(1, llm)
    \/ \E raises \in BOOLEAN : AddRowValues(1, raises)
    \/ \E raises \in BOOLEAN : AddGetAllRecords(1, raises)
    \/ \E raises \in BOOLEAN : AddAppendRow(1, raises)
    \/ \E raises \in BOOLEAN : RemoveGetAllRecords(1, raises)
    \/ \E raises \in BOOLEAN : RemoveDeleteRows(1, raises)
    \/ ResetChat(1)
    \/ SampleData(1)

Spec == Init /\ [][Next]_vars

\* a step of the script run that handles the chat input: the run goes on
\* from one external call to the next until the reply is appended
TurnStep ==
    \/ \E llm \in LLMReplies : ExtractJobDetails(1, llm)
    \/ \E llm \in LLMReplies : GetAiResponse(1, llm)
    \/ \E raises \in BOOLEAN : AddRowValues(1, raises)
    \/ \E raises \in BOOLEAN : AddGetAllRecords(1, raises)
    \/ \E raises \in BOOLEAN : AddAppendRow(1, raises)
    \/ \E raises \in BOOLEAN : RemoveGetAllRecords(1, raises)
    \/ \E raises \in BOOLEAN : RemoveDeleteRows(1, raises)

\* every external call returns or raises, so a run that has begun goes on
SpecLive == Init /\ [][Next]_vars /\ WF_vars(TurnStep)

\* a sheet as it was filled by hand before the tracker is used
InitRows ==
    { <<>>,
      << << << "a" >>, << "x" >>, << "2025-05-23" >>, << "l" >>, << "Pending" >> >> >> }

\* one tracker, its methods called one after the other
InitSheet ==
    /\ sheet_header \in Headers
    /\ sheet_rows \in InitRows
    /\ InitSessions
    /\ gemini_configured = [s \in AllSessions |-> FALSE]
    /\ sheets_configured[2] = FALSE
    /\ ClassifierAtRest

NextSheet ==
    \/ \E d \in DetailsSet : CallAdd(1, d)
    \/ \E company \in Companies : CallRemove(1, company)
    \/ \E raises \in BOOLEAN : AddRowValues(1, raises)
    \/ \E raises \in BOOLEAN : AddGetAllRecords(1, raises)
    \/ \E raises \in BOOLEAN : AddAppendRow(1, raises)
    \/ \E raises \in BOOLEAN : RemoveGetAllRecords(1, raises)
    \/ \E raises \in BOOLEAN : RemoveDeleteRows(1, raises)

SpecSheet == InitSheet /\ [][NextSheet]_vars

\* two sessions, each with its own tracker, on the same sheet
InitRace ==
    /\ sheet_header \in Headers
    /\ sheet_rows = <<>>
    /\ InitSessions
    /\ gemini_configured = [s \in AllSessions |-> FALSE]
    /\ sheets_configured = [s \in AllSessions |-> TRUE]
    /\ ClassifierAtRest

\* the same application, as two users of the sheet write it
RaceDetails == { d \in DetailsSet : lower(d.Company_Name) = << "a" >> /\ d.Date = Today }

NextRace ==
    \/ \E s \in AllSessions, d \in RaceDetails : CallAdd(s, d)
    \/ \E s \in AllSessions, raises \in BOOLEAN : AddRowValues(s, raises)
    \/ \E s \in AllSessions, raises \in BOOLEAN : AddGetAllRecords(s, raises)
    \/ \E s \in AllSessions, raises \in BOOLEAN : AddAppendRow(s, raises)

SpecRace == InitRace /\ [][NextRace]_vars

\* the sheet and the sessions at rest, for the checks of the pure functions
SheetAtRest ==
    /\ sheet_header = <<>>
    /\ sheet_rows = <<>>
    /\ gemini_configured = <<>>
    /\ sheets_configured = <<>>
    /\ messages = <<>>
    /\ pc = <<>>
    /\ caller = <<>>
    /\ details = <<>>
    /\ target = <<>>
    /\ rows_to_delete = <<>>
    /\ result = <<>>
    /\ calls = <<>>
    /\ rows0 = <<>>
    /\ deleted = <<>>

NextClassify == Classify /\ UNCHANGED sheetVars

\* a text is typed and nothing else is looked at
InitText == InitClassify /\ SheetAtRest

SpecClassify == InitText /\ [][NextClassify]_vars

-----------------------------------------------------------------------------
(* Claims about the turn loop *)

TurnPcs == ModelPcs \cup AddPcs \cup RemovePcs

LastOf(seq) == seq[Len(seq)]

\* seq grew by exactly the turns of the roles given
GrewBy(old, new, roles) ==
    /\ Len(new) = Len(old) + Len(roles)
    /\ \A i \in 1..Len(old) : new[i] = old[i]
    /\ \A i \in 1..Len(roles) : new[Len(old) + i].role = roles[i]

InTurn(s) == pc[s] # "idle" /\ caller[s] = "turn"

\* C1: a turn of the loop, whatever the language model and the worksheet do
\* (raise, answer malformed text, be unconfigured), appends the user's
\* message and then exactly one assistant message, and no exception ends it:
\* the step that takes the chat input appends the user's message (with the
\* reply, when the turn needs no external call), every further step of the
\* turn leaves the conversation alone until the last one appends the one
\* reply, the turn is always at a line of the loop, and a turn that has
\* begun comes to its end.
C1_OneReplyPerTurn ==
    /\ \A s \in AllSessions : InTurn(s) ~> (pc[s] = "idle")
    /\ [][ \A s \in AllSessions :
             /\ (pc[s] = "idle" /\ pc'[s] # "idle" /\ caller'[s] = "turn") =>
                   /\ pc'[s] \in TurnPcs
                   /\ GrewBy(messages[s], messages'[s], << "user" >>)
             /\ (pc[s] = "idle" /\ pc'[s] = "idle" /\ calls'[s] = NoCalls
                   /\ Len(messages'[s]) > Len(messages[s]) + 1) =>
                   GrewBy(messages[s], messages'[s], << "user", "assistant" >>)
             /\ InTurn(s) =>
                   \/ /\ pc'[s] \in TurnPcs
                      /\ messages'[s] = messages[s]
                   \/ /\ pc'[s] = "idle"
                      /\ GrewBy(messages[s], messages'[s], << "assistant" >>)
         ]_vars

C1_Witness ==
    /\ pc[1] = "idle"
    /\ Len(messages[1]) = 4
    /\ messages[1][3].role = "user"
    /\ messages[1][4].role = "assistant"
    /\ messages[1][4].content.message.text = "Error removing from sheet"
    /\ calls[1].sheet = 2
    /\ Len(sheet_rows) = 1

\* the step ends an add_to_sheet call made by the turn loop of session s
AddReturnsToTurn(s) ==
    /\ pc'[s] = "idle"
    /\ \/ pc[s] \in AddPcs /\ caller[s] = "turn"
       \/ \E llm \in LLMReplies :
             /\ ExtractJobDetails(s, llm)
             /\ extract_job_details(gemini_configured[s], llm).is_valid

\* the step is an extraction of session s that is not valid
InvalidExtraction(s) ==
    \E llm \in LLMReplies :
        /\ ExtractJobDetails(s, llm)
        /\ ~extract_job_details(gemini_configured[s], llm).is_valid

\* C2 as stated: in the Application branch the assistant turn carries the
\* job record exactly when the extraction was valid, whether add_to_sheet
\* succeeded or failed; with an invalid extraction no record is attached.
C2_AsStated ==
    [][ \A s \in AllSessions :
          /\ AddReturnsToTurn(s) => "job_details" \in DOMAIN LastOf(messages'[s])
          /\ InvalidExtraction(s) => "job_details" \notin DOMAIN LastOf(messages'[s])
      ]_vars

\* C2 amended: the assistant turn carries the job record exactly when the
\* extraction was valid and add_to_sheet succeeded; the record is the one
\* extracted.
C2_RecordOnSuccess ==
    [][ \A s \in AllSessions :
          /\ AddReturnsToTurn(s) =>
                /\ ("job_details" \in DOMAIN LastOf(messages'[s])) <=> result'[s].success
                /\ result'[s].success => LastOf(messages'[s]).job_details = details'[s]
          /\ InvalidExtraction(s) => "job_details" \notin DOMAIN LastOf(messages'[s])
      ]_vars

C2_Witness ==
    /\ pc[1] = "idle"
    /\ messages[1] # <<>>
    /\ result[1].op = "add"
    /\ ~result[1].success
    /\ LastOf(messages[1]).role = "assistant"
    /\ LastOf(messages[1]).content.message.text = "This job application already exists"
    /\ "job_details" \notin DOMAIN LastOf(messages[1])

\* the step is one of session s
ActsIn(s) ==
    \/ pc'[s] # pc[s]
    \/ messages'[s] # messages[s]
    \/ calls'[s] # calls[s]
    \/ result'[s] # result[s]

\* C7: a capability that is not configured stays so, and every operation
\* that needs it answers "not configured" without the external call:
\* without Gemini neither extract_job_details nor get_ai_response calls the
\* language model and the reply carries the fixed message; without Sheets
\* add_to_sheet and remove_from_sheet return at once with the fixed message,
\* no call of the worksheet is made and the rows stay as they are.
C7_NotConfigured ==
    [][ \A s \in AllSessions :
          /\ gemini_configured'[s] = gemini_configured[s]
          /\ sheets_configured'[s] = sheets_configured[s]
          /\ ~gemini_configured[s] =>
                /\ calls'[s].llm = 0
                /\ (pc[s] = "extract_job_details" /\ pc'[s] # pc[s]) =>
                      /\ pc'[s] = "idle"
                      /\ LastOf(messages'[s]).content.message.text
                            = "Gemini AI not configured"
                /\ (pc[s] = "get_ai_response" /\ pc'[s] # pc[s]) =>
                      /\ pc'[s] = "idle"
                      /\ LastOf(messages'[s]).content.message.text
                            = "I'm having trouble connecting to my AI service"
          /\ ~sheets_configured[s] =>
                /\ calls'[s].sheet = 0
                /\ pc'[s] \notin AddPcs \cup RemovePcs
                /\ ActsIn(s) => sheet_rows' = sheet_rows
                /\ result'[s].op \in {"add", "remove"} =>
                      /\ ~result'[s].success
                      /\ result'[s].message.text = "Google Sheets not configured"
      ]_vars

C7_Witness ==
    /\ ~sheets_configured[1]
    /\ gemini_configured[1]
    /\ result[1].op = "add"
    /\ result[1].message.text = "Google Sheets not configured"
    /\ calls[1].llm = 1

-----------------------------------------------------------------------------
(* Claims about the classifier *)

\* the text holds the word "remove", whitespace, at least one character of
\* one line, whitespace and the word "row", in any letter case
HasRemovePattern(t) ==
    \E i \in 1..Len(t) :
        /\ LowerChar(t[i]) = "remove"
        /\ \E a \in (i + 2)..Len(t) :
              /\ \A k \in (i + 1)..(a - 1) : IsSpace(t[k])
              /\ \E b \in a..Len(t) :
                    /\ \A k \in a..b : t[k] # "\n"
                    /\ \E q \in (b + 2)..Len(t) :
                          /\ \A k \in (b + 1)..(q - 1) : IsSpace(t[k])
                          /\ LowerChar(t[q]) = "row"

HasJobKeyword(t) == \E i \in 1..Len(t) : LowerChar(t[i]) \in job_keywords

\* C5: the classifier is a total three-way decision in which the remove
\* pattern comes first: Remove exactly for the texts that match the remove
\* pattern (job keyword or not), Application exactly for the texts that do
\* not match it and hold a job keyword in any letter case, and Conversation
\* (None) for all other texts.
C5_ClassifierThreeWay ==
    message_type # Unset =>
        /\ message_type \in {"remove", "application", None}
        /\ (message_type = "remove") <=> HasRemovePattern(prompt)
        /\ (message_type = "application") <=>
              (~HasRemovePattern(prompt) /\ HasJobKeyword(prompt))
        /\ (message_type = None) <=>
              (~HasRemovePattern(prompt) /\ ~HasJobKeyword(prompt))

C5_Witness ==
    /\ message_type = "remove"
    /\ HasJobKeyword(prompt)

\* the text holds "remove X row" at position p, X = t[p+2..e], in any letter
\* case, X non-empty and without the word "row"
HoldsRemoveXRow(t, p, e) ==
    /\ p + 2 <= e /\ e + 2 <= Len(t)
    /\ LowerChar(t[p]) = "remove"
    /\ t[p + 1] = " "
    /\ t[e + 1] = " "
    /\ LowerChar(t[e + 2]) = "row"
    /\ \A k \in (p + 2)..e : LowerChar(t[k]) # "row"

\* C6 as stated: every text that holds "remove X row" (any letter case, X
\* non-empty, X without the word "row") is classified Remove and the company
\* name handed to the remove operation is X without its surrounding
\* whitespace.
C6_AsStated ==
    message_type # Unset =>
        \A p, e \in 1..Len(prompt) :
            HoldsRemoveXRow(prompt, p, e) =>
                /\ message_type = "remove"
                /\ company_name = strip(SubSeq(prompt, p + 2, e))

\* C6 amended: the same, for an X without a line break that holds a character
\* other than whitespace, when no "remove" comes earlier in the text.
C6_RemoveTarget ==
    message_type # Unset =>
        \A p, e \in 1..Len(prompt) :
            ( /\ HoldsRemoveXRow(prompt, p, e)
              /\ \A k \in (p + 2)..e : prompt[k] # "\n"
              /\ \E k \in (p + 2)..e : ~IsSpace(prompt[k])
              /\ \A k \in 1..(p - 1) : LowerChar(prompt[k]) # "remove" )
            =>  /\ message_type = "remove"
                /\ company_name = strip(SubSeq(prompt, p + 2, e))

C6_Witness ==
    /\ message_type = "remove"
    /\ \E p, e \in 1..Len(prompt) :
          /\ HoldsRemoveXRow(prompt, p, e)
          /\ \A k \in (p + 2)..e : prompt[k] # "\n"
          /\ \E k \in (p + 2)..e : ~IsSpace(prompt[k])
          /\ \A k \in 1..(p - 1) : LowerChar(prompt[k]) # "remove"
          /\ prompt[Len(prompt)] = "Row"
          /\ company_name = <<"a">>

-----------------------------------------------------------------------------
(* Claims about add_to_sheet and remove_from_sheet *)

\* the data rows of the sheet that match the dedup key of d
KeyRows(header, rows, d) ==
    LET records == get_all_records(header, rows)
    IN  { r \in DOMAIN rows : IsDuplicate(records[r], d) }

SameKey(d, e) ==
    /\ lower(d.Company_Name) = lower(e.Company_Name)
    /\ lower(d.Role) = lower(e.Role)
    /\ d.Date = e.Date

\* the step ends an add_to_sheet call of session s in which no call of the
\* worksheet raised
AddReturns(s) ==
    /\ pc[s] \in AddPcs
    /\ pc'[s] = "idle"
    /\ result'[s].message.text # "Error saving to sheet"

\* C3 as stated: on a configured sheet whose header holds the five names,
\* add_to_sheet with no row matching (company, role, date) succeeds, and
\* the same add called again fails with "already exists", appends nothing
\* and leaves exactly one row matching the key.
C3_AsStated ==
    [][ \A s \in AllSessions :
          (AddReturns(s) /\ HeaderOK(sheet_header)) =>
             /\ KeyRows(sheet_header, sheet_rows, details[s]) = {} => result'[s].success
             /\ ( /\ result[s].op = "add"
                  /\ result[s].success
                  /\ SameKey(result[s].details, details[s]) ) =>
                   /\ ~result'[s].success
                   /\ result'[s].message.text = "This job application already exists"
                   /\ sheet_rows' = sheet_rows
                   /\ Cardinality(KeyRows(sheet_header, sheet_rows', details[s])) = 1
      ]_vars

\* the column get_all_records reads "Company Name" from
CompanyColumn(header) == Max({ i \in DOMAIN header : header[i] = "Company Name" })

\* the rows whose company is not the one given, in their order
OtherRows(header, rows, company) ==
    SelectSeq(rows, LAMBDA row :
                       lower(Cell(row, CompanyColumn(header))) # lower(company))

\* C4: when remove_from_sheet has returned success, the sheet holds exactly
\* the rows it held at the call whose company differs from the target
\* (compared in lower case), in their order, and the count reported is the
\* number of rows that went, at least one; when it has returned "No
\* application found", no row of the sheet matched and none went.
C4_RemoveExactlyMatches ==
    \A s \in AllSessions :
        (pc[s] = "idle" /\ result[s].op = "remove") =>
           /\ result[s].success =>
                 /\ sheet_rows = OtherRows(sheet_header, rows0[s], result[s].company)
                 /\ result[s].message.text = "Successfully removed"
                 /\ result[s].message.count = Len(rows0[s]) - Len(sheet_rows)
                 /\ result[s].message.count >= 1
           /\ result[s].message.text = "No application found" =>
                 /\ OtherRows(sheet_header, rows0[s], result[s].company) = rows0[s]
                 /\ sheet_rows = rows0[s]

C4_Witness ==
    /\ pc[1] = "idle"
    /\ result[1].op = "remove"
    /\ result[1].success
    /\ result[1].message.count = 2
    /\ Len(rows0[1]) = 3
    /\ sheet_rows = << rows0[1][2] >>
    /\ Cell(rows0[1][1], CompanyColumn(sheet_header))
          # Cell(rows0[1][3], CompanyColumn(sheet_header))

\* one of the five column names is in no cell of the header row
LacksAName(header) ==
    \E h \in { "Company Name", "Role", "Date", "Platform", "Accept" } :
        \A i \in DOMAIN header : header[i] # h

\* C8: add_to_sheet on a sheet whose header lacks one of the five names
\* returns after the read of the header, with "Invalid sheet structure"
\* unless the read raised, and the rows stay as they are; a header that
\* holds the five names, in any order and with other columns, is never
\* answered with "Invalid sheet structure".
C8_HeaderCheck ==
    [][ \A s \in AllSessions :
          (pc[s] \in AddPcs /\ pc'[s] = "idle") =>
             /\ LacksAName(sheet_header) =>
                   /\ pc[s] = "add_row_values"
                   /\ calls'[s].sheet = 1
                   /\ ~result'[s].success
                   /\ result'[s].message.text
                         \in { "Invalid sheet structure", "Error saving to sheet" }
                   /\ sheet_rows' = sheet_rows
             /\ ~LacksAName(sheet_header) =>
                   result'[s].message.text # "Invalid sheet structure"
      ]_vars

C8_Witness ==
    /\ pc[1] = "idle"
    /\ result[1].op = "add"
    /\ result[1].message.text = "Invalid sheet structure"
    /\ calls[1].sheet = 1
    /\ sheet_rows # <<>>
    /\ Len(sheet_header) = 4

\* C9: the indices remove_from_sheet has passed to delete_rows are strictly
\* descending, each is the position of a matching data row plus one, and
\* while deletions are pending every index yet to be deleted still
\* addresses the row it was computed for: that row and all rows before it
\* are where they were when the records were read.
C9_DescendingDeletes ==
    \A s \in AllSessions :
        /\ \A i \in 1..Len(deleted[s]) - 1 : deleted[s][i] > deleted[s][i + 1]
        /\ \A k \in Range(rows_to_delete[s]) :
              /\ k - 1 \in DOMAIN rows0[s]
              /\ lower(Cell(rows0[s][k - 1], CompanyColumn(sheet_header)))
                    = lower(target[s])
        /\ Range(deleted[s]) \subseteq Range(rows_to_delete[s])
        /\ pc[s] = "rm_delete_rows" =>
              \A k \in Range(rows_to_delete[s]) \ Range(deleted[s]) :
                  \A j \in 1..(k - 1) :
                      /\ j \in DOMAIN sheet_rows
                      /\ j \in DOMAIN rows0[s]
                      /\ sheet_rows[j] = rows0[s][j]

C9_Witness ==
    /\ pc[1] = "rm_delete_rows"
    /\ Len(rows_to_delete[1]) = 2
    /\ deleted[1] = << 4 >>
    /\ rows_to_delete[1] = << 2, 4 >>

\* both sessions have returned success from add_to_sheet for the same key
BothAdded ==
    /\ \A s \in AllSessions :
          /\ pc[s] = "idle"
          /\ result[s].op = "add"
          /\ result[s].success
    /\ SameKey(result[1].details, result[2].details)

\* C10: nothing makes the read of the records, the search for a duplicate
\* and the append one step: two sessions that add the same (company, role,
\* date) to the same sheet can both return success, and whenever they have,
\* each has appended its row, so the sheet holds two rows with that key.
C10_CheckThenActRace ==
    (BothAdded /\ SubSeq(sheet_header, 1, 5) = expected_headers) =>
        Cardinality(KeyRows(sheet_header, sheet_rows, result[1].details)) >= 2

C10_Witness ==
    /\ BothAdded
    /\ sheet_header = expected_headers
    /\ Len(sheet_rows) = 2
    /\ KeyRows(sheet_header, sheet_rows, result[2].details) = {1, 2}
    /\ calls[1].sheet = 3
    /\ calls[2].sheet = 3

-----------------------------------------------------------------------------
(* The dedup key over the life of the sheet *)

\* the dedup key of a record, as the duplicate check of lines 235-237 reads it
RecordKey(record) ==
    << lower(Get(record, "Company Name", <<>>)),
       lower(Get(record, "Role", <<>>)),
       Get(record, "Date", << None >>) >>

\* C11 as stated: with one tracker as the only writer, on a sheet that began
\* with no two rows of the same dedup key (company and role in lower case,
\* date as written), after any sequence of add_to_sheet and
\* remove_from_sheet calls, failed ones included, no two rows of the sheet
\* have the same dedup key.
C11_AsStated ==
    LET records == get_all_records(sheet_header, sheet_rows)
    IN  \A i, j \in DOMAIN records :
            i # j => RecordKey(records[i]) # RecordKey(records[j])

=============================================================================
